---- MODULE Spec2Model ----
(***************************************************************************)
(* The Monkey lexer of src/lexer.rs as a state machine.                    *)
(*                                                                         *)
(* A byte is a number 0..255; `b as char` is the code point of the same    *)
(* number, so a Vec<char> literal is the sequence of those numbers.        *)
(* position and read_position are 0-based as in the source; the TLA+       *)
(* sequence input is 1-based, so input[i] of the source is input[i + 1].   *)
(* One step of the machine is one read_char, one match arm or one return.  *)
(***************************************************************************)
EXTENDS Naturals, Sequences, FiniteSets

\* ------------------------------------------------------------------ bounds
\* longest source drawn
MaxLen == 3
\* most next_token calls the caller makes directly (lex makes its own)
MaxCalls == 4
\* longest text put before and after a keyword
MaxContext == 1
\* longest source of the runs under fairness
MaxLiveLen == 2

\* ------------------------------------------------------------- characters
\* b'\0', the sentinel (and a byte a &str may contain)
NUL == 0
\* consume_whitespace without its b'\r' test
Whitespace_noCR == {32, 9, 10}

\* b' ', b'\t', b'\n', b'\r'
Whitespace == {32, 9, 10, 13}
\* = ; ( ) , + { }
Punctuation == {61, 59, 40, 41, 44, 43, 123, 125}
\* char::is_alphabetic on the code points 0..255 (u8 as char): the ASCII
\* letters, and the Latin-1 letters (every code point from 0xC0 on except
\* the multiplication and division signs, and the feminine/masculine
\* ordinal indicators and the micro sign)
Alphabetic ==
    (65..90) \cup (97..122) \cup {170, 181, 186}
        \cup (192..214) \cup (216..246) \cup (248..255)

is_letter(c) == c \in Alphabetic \/ c = 95

\* is_number with the wrong radix, c.is_digit(8)
is_number_octal(c) == c \in 48..55

is_number(c) == c \in 48..57

\* ----------------------------------------------------------------- tokens
TokenType ==
    {"Illegal", "EOF", "Ident", "Int", "Assign", "Plus", "Comma", "Semicolon",
     "LParen", "RParen", "LBrace", "RBrace", "Function", "Let"}

Token(kind, literal) == [kind |-> kind, literal |-> literal]

\* "before any call": the value of a token variable nothing was assigned to
NoToken == Token("None", <<>>)

\* the arms with the kinds of the two braces exchanged
PunctKind_braces(c) ==
    CASE c = 61 -> "Assign"
      [] c = 59 -> "Semicolon"
      [] c = 40 -> "LParen"
      [] c = 41 -> "RParen"
      [] c = 44 -> "Comma"
      [] c = 43 -> "Plus"
      [] c = 123 -> "RBrace"
      [] c = 125 -> "LBrace"

\* the eight single-character arms of next_token's match
PunctKind(c) ==
    CASE c = 61 -> "Assign"
      [] c = 59 -> "Semicolon"
      [] c = 40 -> "LParen"
      [] c = 41 -> "RParen"
      [] c = 44 -> "Comma"
      [] c = 43 -> "Plus"
      [] c = 123 -> "LBrace"
      [] c = 125 -> "RBrace"

\* Some(token) is <<token>>, None is <<>>
is_keyword(s) ==
    IF s = <<102, 110>> THEN <<Token("Function", <<102, 110>>)>>
    ELSE IF s = <<108, 101, 116>> THEN <<Token("Let", <<108, 101, 116>>)>>
    ELSE <<>>

\* the token next_token builds from what read_identifier returned
IdentToken(value) ==
    IF is_keyword(value) # <<>> THEN is_keyword(value)[1]
    ELSE Token("Ident", value)

\* ------------------------------------------------------------ the scanner
\* A Lexer value. abort is not a field of the struct: it records that an
\* index or a slice of input was out of bounds, where the program panics.
Lexer(i, p, rp, c, a) ==
    [input |-> i, position |-> p, read_position |-> rp, ch |-> c, abort |-> a]

\* the test off by one: the byte past the end is read
AtEnd_late(rp, n) == rp > n

\* the test of read_char: nothing left to read
AtEnd(rp, n) == rp >= n

\* read_char that leaves ch as it was at the end of input
read_char_stale(lx) ==
    LET n == Len(lx.input)
        rp == lx.read_position
    IN  IF lx.abort THEN lx
        ELSE IF rp >= n
        THEN [lx EXCEPT !.position = rp, !.read_position = rp + 1]
        ELSE [lx EXCEPT !.ch = lx.input[rp + 1], !.position = rp,
                        !.read_position = rp + 1]

\* read_char that reads the byte at position instead of read_position
read_char_lagging(lx) ==
    LET n == Len(lx.input)
        rp == lx.read_position
    IN  IF lx.abort THEN lx
        ELSE IF rp >= n
        THEN [lx EXCEPT !.ch = NUL, !.position = rp, !.read_position = rp + 1]
        ELSE [lx EXCEPT !.ch = lx.input[lx.position + 1], !.position = rp,
                        !.read_position = rp + 1]

\* read_char that increments read_position before it copies it to position
read_char_swapped(lx) ==
    LET n == Len(lx.input)
        rp == lx.read_position
    IN  IF lx.abort THEN lx
        ELSE IF rp >= n
        THEN [lx EXCEPT !.ch = NUL, !.position = rp + 1,
                        !.read_position = rp + 1]
        ELSE [lx EXCEPT !.ch = lx.input[rp + 1], !.position = rp + 1,
                        !.read_position = rp + 1]

\* read_char; where input[read_position] would be out of bounds the program
\* panics
read_char(lx) ==
    LET n == Len(lx.input)
        rp == lx.read_position
    IN  IF lx.abort THEN lx
        ELSE IF AtEnd(rp, n)
        THEN [lx EXCEPT !.ch = NUL, !.position = rp, !.read_position = rp + 1]
        ELSE IF rp < n
        THEN [lx EXCEPT !.ch = lx.input[rp + 1], !.position = rp,
                        !.read_position = rp + 1]
        ELSE [lx EXCEPT !.abort = TRUE]

\* Lexer::new
new(source) == read_char(Lexer(source, 0, 0, NUL, FALSE))

\* &input[from..to] is in bounds
SliceOk(v, from, to) == from <= to /\ to <= Len(v)

\* &input[from..to], each byte as char
Slice(v, from, to) == SubSeq(v, from + 1, to)

\* ------------------------------------------- the operations as functions
\* The same code read as functions of a Lexer value: what a whole call
\* returns. The state machine below takes the same calls one step at a time.

\* consume_whitespace with an `if` for its `while`
consume_whitespace_once(lx) ==
    IF ~lx.abort /\ lx.ch \in Whitespace THEN read_char(lx) ELSE lx

\* consume_whitespace
RECURSIVE consume_whitespace(_)
consume_whitespace(lx) ==
    IF ~lx.abort /\ lx.ch \in Whitespace
    THEN consume_whitespace(read_char(lx))
    ELSE lx

\* the loop of read_identifier
RECURSIVE identifier_loop(_)
identifier_loop(lx) ==
    IF ~lx.abort /\ is_letter(lx.ch)
    THEN identifier_loop(read_char(lx))
    ELSE lx

\* the loop of read_number
RECURSIVE number_loop(_)
number_loop(lx) ==
    IF ~lx.abort /\ is_number(lx.ch)
    THEN number_loop(read_char(lx))
    ELSE lx

\* what a call returns: the Lexer after it and the value
Result(lx, v) == [lexer |-> lx, value |-> v]

\* a slice of input taken by a Lexer that stopped at `to`
slice_of(lx, from) ==
    IF lx.abort \/ ~SliceOk(lx.input, from, lx.position)
    THEN Result([lx EXCEPT !.abort = TRUE], <<>>)
    ELSE Result(lx, Slice(lx.input, from, lx.position))

read_identifier(lx) == slice_of(identifier_loop(lx), lx.position)

read_number(lx) == slice_of(number_loop(lx), lx.position)

\* the arm returning Illegal for the sentinel
EOFToken_illegal(c) == Token("Illegal", <<c>>)

\* the b'\0' arm's token
EOFToken(c) == Token("EOF", <<c>>)

next_token(lx0) ==
    LET lx == consume_whitespace(lx0)
        c == lx.ch
    IN  IF c \in Punctuation
        THEN Result(read_char(lx), Token(PunctKind(c), <<c>>))
        ELSE IF c = NUL
        THEN Result(read_char(lx), EOFToken(c))
        ELSE IF is_letter(c)
        THEN LET r == read_identifier(lx)
             IN  Result(r.lexer, IdentToken(r.value))
        ELSE IF is_number(c)
        THEN LET r == read_number(lx)
             IN  Result(r.lexer, Token("Int", r.value))
        ELSE Result(read_char(lx), Token("Illegal", <<c>>))

\* the test against the wrong kind: EOF is pushed, Illegal ends the loop
LexContinues_illegal(t) == t.kind # "Illegal"

\* the test of lex's while loop
LexContinues(t) == t.kind # "EOF"

RECURSIVE lex_loop(_, _)
lex_loop(lx, acc) ==
    LET r == next_token(lx)
    IN  IF r.lexer.abort THEN acc
        ELSE IF LexContinues(r.value)
        THEN lex_loop(r.lexer, Append(acc, r.value))
        ELSE acc

\* Lexer::lex
lex(lx) == lex_loop(lx, <<>>)

\* --------------------------------------------------------------- sources
\* The bytes sources are drawn from: f n _ ; 0 9 ; = ; space ; @ ; NUL ;
\* and the bytes of two two-byte characters: 0xC3 0xA9 (e-acute) and
\* 0xC3 0xAA (e-circumflex). Read as code points, 0xC3 and 0xAA are
\* letters of Latin-1 and 0xA9 (the copyright sign) is not.
Alphabet == {102, 110, 95, 48, 57, 61, 32, 64, 0, 195, 169, 170}

Strings(A, n) == UNION {[1..k -> A] : k \in 0..n}

\* s is the bytes of a &str: UTF-8. Of the multi-byte forms only the
\* two-byte one is drawn: a lead byte 0xC2..0xDF and one continuation byte
\* 0x80..0xBF.
Utf8(s) ==
    /\ \A i \in 1..Len(s) : s[i] < 128 \/ s[i] \in 128..191 \/ s[i] \in 194..223
    /\ \A i \in 1..Len(s) :
           s[i] \in 194..223 => (i < Len(s) /\ s[i + 1] \in 128..191)
    /\ \A i \in 1..Len(s) :
           s[i] \in 128..191 => (i > 1 /\ s[i - 1] \in 194..223)

Sources == {s \in Strings(Alphabet, MaxLen) : Utf8(s)}

\* ASCII text: f n _ ; 0 9 ; = ; space ; @
TextAlphabet == {102, 110, 95, 48, 57, 61, 32, 64}

\* = ; ( ) , + { } and space, tab, newline, carriage return
PunctAlphabet == {61, 59, 40, 41, 44, 43, 123, 125, 32, 9, 10, 13}

\* the input of tests::basic_tokens
BasicTokensInput == <<61, 43, 40, 41, 123, 125, 44, 59>>

\* the input of tests::bindings_and_functions
BindingsInput ==
    <<10, 32, 32, 32, 32, 32, 32, 32, 32, 108, 101, 116, 32, 102, 105, 118,
      101, 32, 61, 32, 53, 59, 10, 32, 32, 32, 32, 32, 32, 32, 32, 32, 32,
      32, 32, 108, 101, 116, 32, 116, 101, 110, 32, 61, 32, 49, 48, 59, 10,
      32, 32, 32, 32, 32, 32, 32, 32, 108, 101, 116, 32, 97, 100, 100, 32,
      61, 32, 102, 110, 40, 120, 44, 32, 121, 41, 32, 123, 10, 32, 32, 32,
      32, 32, 32, 32, 32, 32, 32, 32, 32, 120, 32, 43, 32, 121, 59, 10, 32,
      32, 32, 32, 32, 32, 32, 32, 125, 59, 10, 32, 32, 32, 32, 32, 32, 32,
      32, 108, 101, 116, 32, 114, 101, 115, 117, 108, 116, 32, 61, 32, 97,
      100, 100, 40, 102, 105, 118, 101, 44, 32, 116, 101, 110, 41, 10, 32,
      32, 32, 32>>

\* "let five = 5;"
LetFiveInput == <<108, 101, 116, 32, 102, 105, 118, 101, 32, 61, 32, 53, 59>>

\* "let add = fn(x, y) { x + y; };"
LetAddInput ==
    <<108, 101, 116, 32, 97, 100, 100, 32, 61, 32, 102, 110, 40, 120, 44,
      32, 121, 41, 32, 123, 32, 120, 32, 43, 32, 121, 59, 32, 125, 59>>

AsciiSources ==
    Strings(TextAlphabet, MaxLen) \cup Strings(PunctAlphabet, MaxLen)
        \cup {BasicTokensInput, BindingsInput, LetFiveInput, LetAddInput}

\* words around the two keywords: fn let Fn LET lets f
KeywordWords ==
    {<<102, 110>>, <<108, 101, 116>>, <<70, 110>>, <<76, 69, 84>>,
     <<108, 101, 116, 115>>, <<102>>}

\* what stands before and after a word: n ; 0 ; = ; space ; @ ; NUL
ContextAlphabet == {110, 48, 61, 32, 64, 0}

\* the two bytes of e-acute
EAcute == <<195, 169>>

\* the texts put before and after a word
Contexts == Strings(ContextAlphabet, MaxContext) \cup {EAcute}

KeywordSources ==
    {pre \o w \o post : pre \in Contexts, w \in KeywordWords, post \in Contexts}

\* the sources lex is run to its end on under fairness
LiveSources == {s \in Strings(Alphabet, MaxLiveLen) : Utf8(s)}

\* ------------------------------------------------------------------ state
VARIABLES
    input, position, read_position, ch,  \* the Lexer
    abort,        \* the program panicked
    pc,           \* where the program is
    mode,         \* who called next_token: "direct" (the caller) or "lex"
    start,        \* read_identifier's / read_number's local `position`
    token,        \* next_token's local `token`
    ret,          \* the token the last next_token call returned
    tokens,       \* lex's vector
    entry,        \* the Lexer as it was when the last next_token call began
    ncalls        \* next_token calls the caller made directly

vars ==
    <<input, position, read_position, ch, abort, pc, mode, start, token, ret,
      tokens, entry, ncalls>>

self == Lexer(input, position, read_position, ch, abort)

\* the Lexer becomes lx
Becomes(lx) ==
    /\ input' = lx.input
    /\ position' = lx.position
    /\ read_position' = lx.read_position
    /\ ch' = lx.ch
    /\ abort' = lx.abort

\* the caller has run Lexer::new on a source of S
InitFrom(S) ==
    \E s \in S :
        LET lx == new(s)
        IN  /\ input = lx.input
            /\ position = lx.position
            /\ read_position = lx.read_position
            /\ ch = lx.ch
            /\ abort = lx.abort
            /\ pc = "idle"
            /\ mode = "direct"
            /\ start = 0
            /\ token = NoToken
            /\ ret = NoToken
            /\ tokens = <<>>
            /\ entry = lx
            /\ ncalls = 0

Init == InitFrom(Sources)

\* next_token returns t to whoever called it
Return(t) ==
    /\ ret' = t
    /\ pc' = IF mode = "direct" THEN "idle" ELSE "lex"

\* the caller calls lexer.next_token()
CallNextToken ==
    /\ pc = "idle" /\ ~abort
    /\ ncalls < MaxCalls
    /\ ncalls' = ncalls + 1
    /\ mode' = "direct"
    /\ pc' = "next_token"
    /\ entry' = self
    /\ UNCHANGED <<input, position, read_position, ch, abort, start, token,
                   ret, tokens>>

\* the caller calls lexer.lex(), which consumes the lexer; lex makes its
\* first next_token call
CallLex ==
    /\ pc = "idle" /\ ~abort
    /\ mode' = "lex"
    /\ tokens' = <<>>
    /\ pc' = "next_token"
    /\ entry' = self
    /\ UNCHANGED <<input, position, read_position, ch, abort, start, token,
                   ret, ncalls>>

\* lex's loop: push the token and call next_token again (the vector is
\* capped one past the longest the source allows)
LexPush ==
    /\ pc = "lex" /\ ~abort
    /\ LexContinues(ret)
    /\ Len(tokens) <= Len(input)
    /\ tokens' = Append(tokens, ret)
    /\ pc' = "next_token"
    /\ entry' = self
    /\ UNCHANGED <<input, position, read_position, ch, abort, mode, start,
                   token, ret, ncalls>>

\* lex's loop ends and lex returns tokens
LexReturn ==
    /\ pc = "lex" /\ ~abort
    /\ ~LexContinues(ret)
    /\ pc' = "done"
    /\ UNCHANGED <<input, position, read_position, ch, abort, mode, start,
                   token, ret, tokens, entry, ncalls>>

\* consume_whitespace: one turn of its loop
ConsumeWhitespace ==
    /\ pc = "next_token" /\ ~abort
    /\ ch \in Whitespace
    /\ Becomes(read_char(self))
    /\ UNCHANGED <<pc, mode, start, token, ret, tokens, entry, ncalls>>

\* one of the eight punctuation arms
MatchPunctuation ==
    /\ pc = "next_token" /\ ~abort
    /\ ch \in Punctuation
    /\ token' = Token(PunctKind(ch), <<ch>>)
    /\ pc' = "advance"
    /\ UNCHANGED <<input, position, read_position, ch, abort, mode, start,
                   ret, tokens, entry, ncalls>>

\* the b'\0' arm
MatchEOF ==
    /\ pc = "next_token" /\ ~abort
    /\ ch = NUL
    /\ token' = EOFToken(ch)
    /\ pc' = "advance"
    /\ UNCHANGED <<input, position, read_position, ch, abort, mode, start,
                   ret, tokens, entry, ncalls>>

\* the catch-all arm, a letter: read_identifier begins
MatchLetter ==
    /\ pc = "next_token" /\ ~abort
    /\ ch \notin Whitespace \cup Punctuation \cup {NUL}
    /\ is_letter(ch)
    /\ start' = position
    /\ pc' = "read_identifier"
    /\ UNCHANGED <<input, position, read_position, ch, abort, mode, token,
                   ret, tokens, entry, ncalls>>

\* the catch-all arm, a digit: read_number begins
MatchDigit ==
    /\ pc = "next_token" /\ ~abort
    /\ ch \notin Whitespace \cup Punctuation \cup {NUL}
    /\ ~is_letter(ch) /\ is_number(ch)
    /\ start' = position
    /\ pc' = "read_number"
    /\ UNCHANGED <<input, position, read_position, ch, abort, mode, token,
                   ret, tokens, entry, ncalls>>

\* the catch-all arm moving position itself instead of leaving it to
\* read_char
MatchIllegal_bump ==
    /\ pc = "next_token" /\ ~abort
    /\ ch \notin Whitespace \cup Punctuation \cup {NUL}
    /\ ~is_letter(ch) /\ ~is_number(ch)
    /\ token' = Token("Illegal", <<ch>>)
    /\ pc' = "advance"
    /\ position' = position + 1
    /\ UNCHANGED <<input, read_position, ch, abort, mode, start,
                   ret, tokens, entry, ncalls>>

\* the catch-all arm, anything else
MatchIllegal ==
    /\ pc = "next_token" /\ ~abort
    /\ ch \notin Whitespace \cup Punctuation \cup {NUL}
    /\ ~is_letter(ch) /\ ~is_number(ch)
    /\ token' = Token("Illegal", <<ch>>)
    /\ pc' = "advance"
    /\ UNCHANGED <<input, position, read_position, ch, abort, mode, start,
                   ret, tokens, entry, ncalls>>

\* read_identifier: one turn of its loop
ReadIdentifierLoop ==
    /\ pc = "read_identifier" /\ ~abort
    /\ is_letter(ch)
    /\ Becomes(read_char(self))
    /\ UNCHANGED <<pc, mode, start, token, ret, tokens, entry, ncalls>>

\* read_identifier returns its slice; next_token returns the keyword or Ident
ReadIdentifierReturn ==
    /\ pc = "read_identifier" /\ ~abort
    /\ ~is_letter(ch)
    /\ IF SliceOk(input, start, position)
       THEN /\ Return(IdentToken(Slice(input, start, position)))
            /\ abort' = abort
       ELSE /\ abort' = TRUE
            /\ UNCHANGED <<pc, ret>>
    /\ UNCHANGED <<input, position, read_position, ch, mode, start, token,
                   tokens, entry, ncalls>>

\* read_number: one turn of its loop
ReadNumberLoop ==
    /\ pc = "read_number" /\ ~abort
    /\ is_number(ch)
    /\ Becomes(read_char(self))
    /\ UNCHANGED <<pc, mode, start, token, ret, tokens, entry, ncalls>>

\* read_number returns its slice; next_token returns Int
ReadNumberReturn ==
    /\ pc = "read_number" /\ ~abort
    /\ ~is_number(ch)
    /\ IF SliceOk(input, start, position)
       THEN /\ Return(Token("Int", Slice(input, start, position)))
            /\ abort' = abort
       ELSE /\ abort' = TRUE
            /\ UNCHANGED <<pc, ret>>
    /\ UNCHANGED <<input, position, read_position, ch, mode, start, token,
                   tokens, entry, ncalls>>

\* the end of next_token without its read_char
Advance_noread ==
    /\ pc = "advance" /\ ~abort
    /\ Return(token)
    /\ UNCHANGED <<input, position, read_position, ch, abort, mode, start,
                   token, tokens, entry, ncalls>>

\* the read_char after the match, then `token` is returned
Advance ==
    /\ pc = "advance" /\ ~abort
    /\ Becomes(read_char(self))
    /\ IF read_char(self).abort
       THEN UNCHANGED <<pc, ret>>
       ELSE Return(token)
    /\ UNCHANGED <<mode, start, token, tokens, entry, ncalls>>

\* a step of the lexer's own code (the caller's calls are the other two)
Step ==
    \/ LexPush
    \/ LexReturn
    \/ ConsumeWhitespace
    \/ MatchPunctuation
    \/ MatchEOF
    \/ MatchLetter
    \/ MatchDigit
    \/ MatchIllegal
    \/ ReadIdentifierLoop
    \/ ReadIdentifierReturn
    \/ ReadNumberLoop
    \/ ReadNumberReturn
    \/ Advance

Next ==
    \/ CallNextToken
    \/ CallLex
    \/ LexPush
    \/ LexReturn
    \/ ConsumeWhitespace
    \/ MatchPunctuation
    \/ MatchEOF
    \/ MatchLetter
    \/ MatchDigit
    \/ MatchIllegal
    \/ ReadIdentifierLoop
    \/ ReadIdentifierReturn
    \/ ReadNumberLoop
    \/ ReadNumberReturn
    \/ Advance

Spec == Init /\ [][Next]_vars

\* the same program on ASCII sources over all of the punctuation, and on
\* the inputs of the tests
SpecAscii == InitFrom(AsciiSources) /\ [][Next]_vars

\* the same program on the keywords and their near misses, in context
SpecKeywords == InitFrom(KeywordSources) /\ [][Next]_vars

\* The program is sequential: once the caller has made a call, the code of
\* the call keeps running until it returns. The caller owes no further call.
FairSpec == InitFrom(LiveSources) /\ [][Next]_vars /\ WF_vars(Step)

\* ------------------------------------------------------- reading a state
\* a next_token call has just returned: entry is the Lexer it was called
\* on, ret the token it returned, self the Lexer it left
Returned == (pc = "idle" /\ ncalls > 0) \/ pc = "lex"

\* lex, called on a fresh Lexer, has returned tokens
LexDone == pc = "done" /\ ncalls = 0

\* the step-by-step run of a call agrees with the call read as a function
StepsAgree ==
    /\ Returned => Result(self, ret) = next_token(entry)
    /\ LexDone => tokens = lex(new(input))

\* ------------------------------------------------- the words of the claims
\* The character classes and the tokenization as the specification states
\* them, written without the code's definitions.
RefWhitespace == {32, 9, 10, 13}

\* a letter or the underscore: A-Z, a-z and _ (the scanner is ASCII-only;
\* a byte past ASCII is neither letter nor digit)
RefLetter == (65..90) \cup (97..122) \cup {95}

RefDigit == 48..57

\* = Assign, + Plus, ( LParen, ) RParen, { LBrace, } RBrace, , Comma,
\* ; Semicolon
RefPunctTable ==
    {<<61, "Assign">>, <<43, "Plus">>, <<40, "LParen">>, <<41, "RParen">>,
     <<123, "LBrace">>, <<125, "RBrace">>, <<44, "Comma">>,
     <<59, "Semicolon">>}

RefPunct == {p[1] : p \in RefPunctTable}

RefPunctKind(c) == (CHOOSE p \in RefPunctTable : p[1] = c)[2]

KwFn == <<102, 110>>

KwLet == <<108, 101, 116>>

\* the length of the maximal run of bytes of S in s from index i (1-based)
RECURSIVE RunLength(_, _, _)
RunLength(s, i, S) ==
    IF i <= Len(s) /\ s[i] \in S THEN 1 + RunLength(s, i + 1, S) ELSE 0

\* the maximal run of bytes of S in s from the 0-based place p
Run(s, p, S) == SubSeq(s, p + 1, p + RunLength(s, p + 1, S))

\* the first 0-based place from p on that holds no whitespace
RECURSIVE SkipWs(_, _)
SkipWs(s, p) ==
    IF p < Len(s) /\ s[p + 1] \in RefWhitespace THEN SkipWs(s, p + 1) ELSE p

\* the token of a letter/underscore run
RefWord(w) ==
    IF w = KwLet THEN Token("Let", w)
    ELSE IF w = KwFn THEN Token("Function", w)
    ELSE Token("Ident", w)

\* the reference tokenization of s from index i (1-based)
RECURSIVE RefLexFrom(_, _)
RefLexFrom(s, i) ==
    IF i > Len(s) THEN <<>>
    ELSE IF s[i] \in RefWhitespace THEN RefLexFrom(s, i + 1)
    ELSE IF s[i] \in RefLetter
    THEN LET k == RunLength(s, i, RefLetter)
         IN  <<RefWord(SubSeq(s, i, i + k - 1))>> \o RefLexFrom(s, i + k)
    ELSE IF s[i] \in RefDigit
    THEN LET k == RunLength(s, i, RefDigit)
         IN  <<Token("Int", SubSeq(s, i, i + k - 1))>> \o RefLexFrom(s, i + k)
    ELSE IF s[i] \in RefPunct
    THEN <<Token(RefPunctKind(s[i]), <<s[i]>>)>> \o RefLexFrom(s, i + 1)
    ELSE <<Token("Illegal", <<s[i]>>)>> \o RefLexFrom(s, i + 1)

RefLex(s) == RefLexFrom(s, 1)

\* the place the last next_token call dispatched on, and whether a byte of
\* the source is there
DispatchAt == SkipWs(input, entry.position)

Dispatched == Returned /\ DispatchAt < Len(input)

DispatchByte == input[DispatchAt + 1]

\* ------------------------------------------------------------------ claims

\* C1: for every source over letters, underscore, digits, the eight
\* punctuation characters, the four whitespace characters and an unrecognized
\* character, lex() on a fresh Lexer returns exactly the reference
\* tokenization of the source.
C1_LexIsReference ==
    (LexDone /\ \A i \in 1..Len(input) : input[i] \in 1..127)
        => tokens = RefLex(input)

\* "let five = 5;" was lexed to Let, Ident "five", Assign, Int "5",
\* Semicolon
C1_Witness ==
    /\ LexDone
    /\ input = LetFiveInput
    /\ tokens = <<Token("Let", KwLet), Token("Ident", <<102, 105, 118, 101>>),
                  Token("Assign", <<61>>), Token("Int", <<53>>),
                  Token("Semicolon", <<59>>)>>

\* C2: for a source made only of = + ( ) { } , ; lex() returns one token per
\* character, in order, token i having the literal of character i alone and
\* the kind of the fixed table.
C2_PunctuationOnly ==
    (LexDone /\ \A i \in 1..Len(input) : input[i] \in RefPunct)
        => /\ Len(tokens) = Len(input)
           /\ \A i \in 1..Len(input) :
                  tokens[i] = Token(RefPunctKind(input[i]), <<input[i]>>)

\* "=+(){},;" was lexed to its eight tokens
C2_Witness ==
    /\ LexDone
    /\ input = BasicTokensInput
    /\ Len(tokens) = 8
    /\ tokens[5] = Token("LBrace", <<123>>)

\* C3: a next_token call that dispatches on a letter or underscore whose
\* maximal letter/underscore run is neither fn nor let returns the Ident
\* token of that whole run, leaves position just after the run, and no digit
\* is part of the literal.
C3_IdentifierIsMaximalRun ==
    (/\ Dispatched
     /\ DispatchByte \in RefLetter
     /\ Run(input, DispatchAt, RefLetter) \notin {KwFn, KwLet})
        => /\ ret = Token("Ident", Run(input, DispatchAt, RefLetter))
           /\ position = DispatchAt + Len(ret.literal)
           /\ \A i \in 1..Len(ret.literal) : ret.literal[i] \notin RefDigit

\* C4: a next_token call whose letter/underscore run is exactly fn (let)
\* returns Function (Let) with that literal, whatever is around the run; any
\* other run, such as one that differs in case or length, is returned as
\* Ident.
C4_KeywordsExact ==
    (Dispatched /\ DispatchByte \in RefLetter)
        => LET run == Run(input, DispatchAt, RefLetter)
           IN  /\ run = KwFn => ret = Token("Function", KwFn)
               /\ run = KwLet => ret = Token("Let", KwLet)
               /\ run \notin {KwFn, KwLet} => ret.kind = "Ident"

\* C5: a next_token call that dispatches on a decimal digit returns the Int
\* token of the whole maximal digit run, verbatim, and leaves position at the
\* byte that ended the run.
C5_IntegerIsMaximalRun ==
    (Dispatched /\ DispatchByte \in RefDigit)
        => /\ ret = Token("Int", Run(input, DispatchAt, RefDigit))
           /\ position = DispatchAt + Len(ret.literal)

\* "09" was returned as one Int and an illegal byte follows it
C5_Witness ==
    /\ Returned
    /\ ret = Token("Int", <<48, 57>>)
    /\ position < Len(input)
    /\ input[position + 1] = 64

\* s with the byte w put in at the 0-based place p
Insert(s, p, w) == SubSeq(s, 1, p) \o <<w>> \o SubSeq(s, p + 1, Len(s))

\* position stands between two tokens: before the first call, after a call
\* returned, or while whitespace is being skipped
AtTokenBoundary ==
    /\ mode = "direct"
    /\ pc \in {"idle", "next_token"}
    /\ position <= Len(input)

\* C6: whitespace contributes no tokens: a space, tab, newline or carriage
\* return put in before the first token, after the last or between two
\* tokens leaves the result of lex() as it was, and a source of whitespace
\* alone lexes to the empty sequence.
C6_WhitespaceTransparent ==
    /\ LexDone => tokens = lex(new(input))
    /\ AtTokenBoundary =>
           \A w \in RefWhitespace :
               lex(new(Insert(input, position, w))) = lex(new(input))
    /\ (LexDone /\ \A i \in 1..Len(input) : input[i] \in RefWhitespace)
           => tokens = <<>>

\* position stands between the two tokens of "f=" and a newline put in
\* there leaves the two tokens
C6_Witness ==
    /\ AtTokenBoundary
    /\ input = <<102, 61>>
    /\ position = 1
    /\ lex(new(<<102, 10, 61>>))
           = <<Token("Ident", <<102>>), Token("Assign", <<61>>)>>

\* C7: a byte that is not whitespace, not punctuation, not a letter or
\* underscore and not a digit makes next_token return the Illegal token of
\* that one byte, and scanning goes on from the byte after it: the tokens
\* that follow are those of the rest of the source.
C7_IllegalByteRecovers ==
    (/\ Dispatched
     /\ DispatchByte
            \notin RefWhitespace \cup RefPunct \cup RefLetter \cup RefDigit)
        => /\ ret = Token("Illegal", <<DispatchByte>>)
           /\ position = DispatchAt + 1
           /\ lex(self)
                  = lex(new(SubSeq(input, DispatchAt + 2, Len(input))))

\* no EOF token in v
NoEOF(v) == \A i \in 1..Len(v) : v[i].kind # "EOF"

\* C8: lex() terminates, and the sequence it returns holds no EOF token.
C8_LexTerminates ==
    /\ [](pc = "done" => NoEOF(tokens))
    /\ (mode = "lex") ~> (pc = "done")

\* lex has returned two tokens or more
C8_Witness ==
    /\ pc = "done"
    /\ Len(tokens) >= 2
    /\ ret.kind = "EOF"

\* C9: once the input is exhausted (position >= the length of the source)
\* every next_token call returns the EOF token whose literal is the sentinel
\* character; on the empty source the first call already does.
C9_EOFRepeats ==
    (Returned /\ entry.position >= Len(input))
        => ret = Token("EOF", <<NUL>>)

\* a third call in a row past the end of a source has returned EOF
C9_Witness ==
    /\ Returned
    /\ Len(input) > 0
    /\ entry.position >= Len(input) + 2
    /\ ret = Token("EOF", <<NUL>>)

\* C10: no operation aborts: read_char indexes input only below its length
\* and read_identifier / read_number slice input[start..position] only with
\* start <= position <= length.
C10_NoAbort ==
    /\ ~abort
    /\ pc \in {"read_identifier", "read_number"}
           => (start <= position /\ position <= Len(input))

\* read_identifier is about to slice up to the very end of the source
C10_Witness ==
    /\ pc = "read_identifier"
    /\ ~is_letter(ch)
    /\ start < position
    /\ position = Len(input)

\* C11: a byte 128..255 is neither letter nor digit: a next_token call that
\* dispatches on one returns the Illegal token of that single byte, and no
\* such byte is part of an Ident literal.
C11_NonAsciiIsIllegal ==
    /\ (Dispatched /\ DispatchByte >= 128)
           => ret = Token("Illegal", <<DispatchByte>>)
    /\ (Returned /\ ret.kind = "Ident")
           => \A i \in 1..Len(ret.literal) : ret.literal[i] < 128

\* the literals of the tokens of v, one after the other
RECURSIVE Literals(_)
Literals(v) == IF v = <<>> THEN <<>> ELSE Head(v).literal \o Literals(Tail(v))

\* s without its whitespace bytes
Strip(s) == SelectSeq(s, LAMBDA b : b \notin RefWhitespace)

\* the call that has returned took its token from input[DispatchAt..position):
\* a non-empty slice that starts at or after the position the call began at,
\* with only whitespace skipped before it
TilesCall ==
    /\ entry.position <= DispatchAt
    /\ \A i \in (entry.position + 1)..DispatchAt : input[i] \in RefWhitespace
    /\ DispatchAt < position
    /\ position <= Len(input)
    /\ ret.literal = SubSeq(input, DispatchAt + 1, position)

\* C12: the tokens of successive next_token calls tile the source left to
\* right: each literal is the non-empty slice from the first non-whitespace
\* byte at or after the position the call began at (where the call before
\* it ended) up to the position it returns at; hence the literals of lex(),
\* put together, are the source without its whitespace.
C12_TokensTileSource ==
    /\ Dispatched => TilesCall
    /\ LexDone => Literals(tokens) = Strip(input)

\* C13: the sentinel is absorbing: once ch is 0 it is 0 after every further
\* step of any operation.
C13_SentinelAbsorbing == [][ch = NUL => ch' = NUL]_vars

\* C14: in every state after construction, whatever next_token calls were
\* made (after EOF too, and inside lex),
\* position <= read_position <= length of the source + 1.
C14_CursorBounded ==
    /\ position <= read_position
    /\ read_position <= Len(input) + 1

\* C15: a next_token call that finds ch equal to the sentinel returns the EOF
\* token and does not advance: position and read_position are what they
\* were when the call began.
C15_EOFDoesNotAdvance ==
    (Returned /\ entry.ch = NUL)
        => /\ ret = Token("EOF", <<NUL>>)
           /\ position = entry.position
           /\ read_position = entry.read_position

\* C16: in every state after construction ch is coherent with position: the
\* byte input[position] while position is below the length of the source,
\* the sentinel 0 from there on.
C16_ChCoherent ==
    ch = IF position < Len(input) THEN input[position + 1] ELSE NUL

\* a call has returned with the cursor inside the source, on a byte other
\* than the one the source begins with
C16_Witness ==
    /\ Returned
    /\ 0 < position /\ position < Len(input)
    /\ ch = input[position + 1]
    /\ ch # input[1]
    /\ ch # NUL

\* C17: read_position = position + 1 after every read_char, so in every
\* state from the return of Lexer::new on, between next_token calls too.
C17_ReadPositionIsNext == read_position = position + 1

\* a call made past the end of a non-empty source has returned
C17_Witness ==
    /\ Returned
    /\ Len(input) > 0
    /\ position > Len(input)
    /\ read_position = position + 1

\* C18: read_char is the only mutator of the scanner state: every step of
\* every operation leaves the source unchanged, and changes position,
\* read_position or ch only as read_char does (position becomes the old
\* read_position, read_position grows by exactly one, ch is the byte read or
\* the sentinel); so position and read_position never decrease.
C18_OnlyReadCharMutates ==
    [][/\ input' = input
       /\ <<position, read_position, ch>>' # <<position, read_position, ch>>
              => /\ position' = read_position
                 /\ read_position' = read_position + 1
                 /\ ch' = IF read_position < Len(input)
                           THEN input[read_position + 1] ELSE NUL
       /\ position' >= position
       /\ read_position' >= read_position]_vars

\* read_identifier has advanced over two bytes of an identifier that began
\* after the start of the source
C18_Witness ==
    /\ pc = "read_identifier"
    /\ start > 0
    /\ position = start + 2

\* the index of the first byte 0 of s (Len(s) + 1 when s has none)
RECURSIVE FirstNul(_, _)
FirstNul(s, i) ==
    IF i > Len(s) \/ s[i] = NUL THEN i ELSE FirstNul(s, i + 1)

\* s up to, and without, its first byte 0
BeforeNul(s) == SubSeq(s, 1, FirstNul(s, 1) - 1)

\* C19: a NUL byte in the source acts as the end of input at a token
\* boundary: lex of a source with a byte 0 is lex of the source cut before
\* its first byte 0, and a next_token call that dispatches on a byte 0
\* returns EOF.
C19_NulEndsInput ==
    /\ (LexDone /\ FirstNul(input, 1) <= Len(input))
           => tokens = lex(new(BeforeNul(input)))
    /\ (Dispatched /\ DispatchByte = NUL) => ret = Token("EOF", <<NUL>>)

\* lex has returned one token or more for a source with bytes after a NUL
C19_Witness ==
    /\ LexDone
    /\ tokens # <<>>
    /\ FirstNul(input, 1) < Len(input)

\* C20: a next_token call that returns a token other than EOF returns a
\* non-empty literal and moves position forward by the length of the literal
\* or more; so lex returns no more tokens than the source has non-whitespace
\* bytes.
C20_TokensConsumeInput ==
    /\ (Returned /\ ret.kind # "EOF")
           => /\ Len(ret.literal) >= 1
              /\ position >= entry.position + Len(ret.literal)
    /\ LexDone => Len(tokens) <= Len(Strip(input))

\* lex has returned exactly one token for each non-whitespace byte of a
\* source that has whitespace too
C20_Witness ==
    /\ LexDone
    /\ Len(tokens) = Len(Strip(input))
    /\ Len(tokens) >= 2
    /\ Len(tokens) < Len(input)

====
